---- MODULE Spec2Model ----
(***************************************************************************)
(* A model of pypi_mirror.py: metadata extraction from distribution        *)
(* archives, the sidecar metadata cache, name reconciliation, the mirror   *)
(* builder and the delete command.                                         *)
(*                                                                         *)
(* Python strings are sequences of one-character strings, so that prefix  *)
(* tests, splitting, normalisation and ordering are computed character by *)
(* character as the code computes them.                                    *)
(***************************************************************************)
EXTENDS Integers, Sequences, FiniteSets, TLC

VARIABLES
    files,      \* download directory: artifact file name -> revision of its bytes
    records,    \* download directory: artifact file name -> content of <name>.metadata.json
    mirror,     \* mirror directory: subdirectory name -> [entries, index]
    root,       \* mirror directory: the root index.html
    last,       \* the last command run and how it ended
    arg,        \* input of the function under study (function-level specifications)
    res         \* its result

vars == <<files, records, mirror, root, last, arg, res>>

-----------------------------------------------------------------------------
(* Strings *)

\* Printable ASCII, code points 32..126, in code point order (code point 96
\* cannot be written in a TLA+ string and is held by a placeholder).
Ascii ==
    <<" ", "!", "\"", "#", "$", "%", "&", "'", "(", ")", "*", "+", ",", "-", ".", "/",
      "0", "1", "2", "3", "4", "5", "6", "7", "8", "9", ":", ";", "<", "=", ">", "?",
      "@", "A", "B", "C", "D", "E", "F", "G", "H", "I", "J", "K", "L", "M", "N", "O",
      "P", "Q", "R", "S", "T", "U", "V", "W", "X", "Y", "Z", "[", "\\", "]", "^", "_",
      "(grave)", "a", "b", "c", "d", "e", "f", "g", "h", "i", "j", "k", "l", "m", "n", "o",
      "p", "q", "r", "s", "t", "u", "v", "w", "x", "y", "z", "{", "|", "}", "~">>

\* ord(c)
OrdOf == [c \in {Ascii[i] : i \in 1..Len(Ascii)} |-> 31 + (CHOOSE i \in 1..Len(Ascii) : Ascii[i] = c)]

Ord(c) == OrdOf[c]

Chr(n) == Ascii[n - 31]

IsUpper(c) == Ord(c) \in 65..90

IsLowerAlpha(c) == Ord(c) \in 97..122

IsDigit(c) == Ord(c) \in 48..57

\* str.lower() on one character
Lower(c) == IF IsUpper(c) THEN Chr(Ord(c) + 32) ELSE c

\* s[i:j] with 0-based Python indices already clipped to 0..len(s)
Slice(s, i, j) == IF j <= i THEN <<>> ELSE SubSeq(s, i + 1, j)

\* str.startswith
StartsWith(s, p) == Len(p) <= Len(s) /\ SubSeq(s, 1, Len(p)) = p

\* str.endswith
EndsWith(s, p) == Len(p) <= Len(s) /\ SubSeq(s, Len(s) - Len(p) + 1, Len(s)) = p

\* str.find: the 0-based index of the first occurrence of sub, or -1
Find(s, sub) ==
    LET hits == {i \in 0..(Len(s) - Len(sub)) : SubSeq(s, i + 1, i + Len(sub)) = sub}
    IN  IF hits = {} THEN -1 ELSE CHOOSE i \in hits : \A j \in hits : i <= j

\* the 0-based index of the last occurrence of the character c, or -1
RFind(s, c) ==
    LET hits == {i \in 0..(Len(s) - 1) : s[i + 1] = c}
    IN  IF hits = {} THEN -1 ELSE CHOOSE i \in hits : \A j \in hits : i >= j

\* s.split(c, maxsplit)[:maxsplit] joined again with c: the text before the
\* maxsplit-th occurrence of c, or all of s when c occurs fewer times
RECURSIVE FirstFields(_, _, _)
FirstFields(s, c, n) ==
    LET i == Find(s, <<c>>)
    IN  IF i = -1 THEN s
        ELSE IF n = 1 THEN Slice(s, 0, i)
        ELSE Slice(s, 0, i + 1) \o FirstFields(Slice(s, i + 1, Len(s)), c, n - 1)

\* Python's ordering of str: by code point, a proper prefix first
RECURSIVE StrLess(_, _)
StrLess(a, b) ==
    IF b = <<>> THEN FALSE
    ELSE IF a = <<>> THEN TRUE
    ELSE IF a[1] = b[1] THEN StrLess(Tail(a), Tail(b))
    ELSE Ord(a[1]) < Ord(b[1])

\* all sequences over S of length lo..hi
Strings(S, lo, hi) == UNION {[1..n -> S] : n \in lo..hi}

\* all orderings of a finite set (the order a directory listing or a set
\* iteration may produce)
RECURSIVE Orderings(_)
Orderings(S) ==
    IF S = {} THEN {<<>>}
    ELSE UNION {{<<x>> \o o : o \in Orderings(S \ {x})} : x \in S}

\* sorted(seq, key=...), keys[i] the str key of seq[i]: a stable sort puts an
\* element after those of smaller key and after those of equal key that precede it
SortedByKey(seq, keys) ==
    LET n      == Len(seq)
        pos(i) == 1 + Cardinality({j \in 1..n : StrLess(keys[j], keys[i])})
                    + Cardinality({j \in 1..(i - 1) : keys[j] = keys[i]})
    IN  [k \in 1..n |-> seq[CHOOSE i \in 1..n : pos(i) = k]]

-----------------------------------------------------------------------------
(* Metadata *)

metadata_ext == <<".", "m", "e", "t", "a", "d", "a", "t", "a", ".", "j", "s", "o", "n">>

\* Metadata.__slots__
Slots == {"name", "norm_name", "version", "homepage", "trusted", "sha256"}

\* the parameters of Metadata.__init__ that have no default
Required == {"name", "norm_name", "version", "homepage"}

\* Metadata(name, norm_name, version, homepage, trusted=True, sha256="")
Metadata(name, norm_name, version, homepage, trusted, sha256) ==
    [name |-> name, norm_name |-> norm_name, version |-> version,
     homepage |-> homepage, trusted |-> trusted, sha256 |-> sha256]

Pkg(file_, metadata) == [file |-> file_, metadata |-> metadata]

IsSep(c) == c \in {"-", "_", "."}

RECURSIVE DropSeps(_)
DropSeps(s) == IF s # <<>> /\ IsSep(s[1]) THEN DropSeps(Tail(s)) ELSE s

\* every separator replaced by a dash of its own, the runs not collapsed
NormalizeEachSep(name) ==
    [i \in 1..Len(name) |-> IF IsSep(name[i]) THEN "-" ELSE Lower(name[i])]

\* re.sub(r"[-_.]+", "-", name).lower()
RECURSIVE normalize(_)
normalize(name) ==
    IF name = <<>> THEN <<>>
    ELSE IF IsSep(name[1]) THEN <<"-">> \o normalize(DropSeps(Tail(name)))
    ELSE <<Lower(name[1])>> \o normalize(Tail(name))

\* What a function call produces: a value, or an exception that propagates.
Return(v) == [exc |-> "", val |-> v]

Raise(e) == [exc |-> e, val |-> <<>>]

Raised(r) == r.exc # ""

-----------------------------------------------------------------------------
(* Archive Metadata Reader *)

\* A metadata file (METADATA, PKG-INFO) is its header lines, each the text
\* that opens the line up to and including the ":" or "," the patterns end
\* with, and the text after the blank that follows it.
Line(key, value) == [key |-> key, value |-> value]

\* str.strip() for blanks
RECURSIVE LStrip(_)
LStrip(s) == IF s # <<>> /\ s[1] = " " THEN LStrip(Tail(s)) ELSE s

RECURSIVE RStrip(_)
RStrip(s) == IF s # <<>> /\ s[Len(s)] = " " THEN RStrip(SubSeq(s, 1, Len(s) - 1)) ELSE s

Strip(s) == RStrip(LStrip(s))

\* the openings "Home-[pP]age:" and "Project-URL: [Hh]ome-?[pP]age," match
HomepageKeys ==
    {"Home-page:", "Home-Page:",
     "Project-URL: Home-page,", "Project-URL: Home-Page,",
     "Project-URL: home-page,", "Project-URL: home-Page,",
     "Project-URL: Homepage,", "Project-URL: HomePage,",
     "Project-URL: homepage,", "Project-URL: homePage,"}

\* re.search(..., re.MULTILINE): the first line one of the openings matches, 0 if none
Search(metadata, keys) ==
    LET hits == {i \in 1..Len(metadata) : metadata[i].key \in keys}
    IN  IF hits = {} THEN 0 ELSE CHOOSE i \in hits : \A j \in hits : i <= j

\* the text a pattern captures in the first line it matches, stripped
Field(metadata, keys) == Strip(metadata[Search(metadata, keys)].value)

\* line 68
Parsed(name, version, homepage) ==
    Return(Metadata(name, normalize(name), version, homepage, TRUE, <<>>))

parse_pkg_metadata(metadata) ==
    IF Search(metadata, {"Name:"}) = 0
    THEN Raise("invalid metadata file, missing 'Name' field")
    ELSE IF Search(metadata, {"Version:"}) = 0
    THEN Raise("invalid metadata file, missing 'Version' field")
    ELSE Parsed(Field(metadata, {"Name:"}), Field(metadata, {"Version:"}),
                IF Search(metadata, HomepageKeys) = 0 THEN <<>>
                ELSE Field(metadata, HomepageKeys))

\* An archive is a function from member paths to the members' contents;
\* ZipFile.open and TarFile.extractfile raise KeyError for a path it lacks.
Extract(archive, member) ==
    IF member \in DOMAIN archive THEN Return(archive[member]) ELSE Raise("KeyError")

PkgInfo == <<"P", "K", "G", "-", "I", "N", "F", "O">>

DistInfo == <<".", "d", "i", "s", "t", "-", "i", "n", "f", "o">>

MetadataMember == <<"M", "E", "T", "A", "D", "A", "T", "A">>

\* os.path.join(a, b) for a relative b
PathJoin(a, b) ==
    IF a = <<>> \/ a[Len(a)] = "/" THEN a \o b ELSE a \o <<"/">> \o b

\* f_name is os.path.basename(f): the model's artifacts are named by their
\* basenames. from_name is lines 81-85, from_member lines 78-86 with what
\* reading the member PKG-INFO gave, from_prefix lines 76-86.
get_metadata_from_archive(f_name, extension, archive) ==
    LET from_name(prefix, dash) ==
            IF dash = -1 THEN Raise("unable to extract metadata")
            ELSE Parsed(Slice(prefix, 0, dash), Slice(prefix, dash + 1, Len(prefix)), <<>>)
        from_member(prefix, metadata) ==
            IF ~Raised(metadata) THEN parse_pkg_metadata(metadata.val)
            ELSE from_name(prefix, RFind(prefix, "-"))
        from_prefix(prefix) ==
            from_member(prefix, Extract(archive, PathJoin(prefix, PkgInfo)))
    IN  IF Find(f_name, extension) = -1 THEN Raise("invalid archive file name")
        ELSE from_prefix(Slice(f_name, 0, Find(f_name, extension)))

IsSchemeChar(c) == IsUpper(c) \/ IsLowerAlpha(c) \/ IsDigit(c) \/ c \in {"+", "-", "."}

\* urllib.parse.urlparse(url).path for a URL without "?", "#" and ";": what
\* follows the scheme (the text before the first colon, when that is a
\* scheme) and, after "//", the network location, which ends at the first slash
UrlPath(url) ==
    LET is_scheme(colon) ==
            /\ colon > 0
            /\ IsUpper(url[1]) \/ IsLowerAlpha(url[1])
            /\ \A i \in 1..colon : IsSchemeChar(url[i])
        after_scheme(colon) ==
            IF is_scheme(colon) THEN Slice(url, colon + 1, Len(url)) ELSE url
        after_netloc(after, slash) ==
            IF slash = -1 THEN <<>> ELSE Slice(after, slash, Len(after))
        path(rest) ==
            IF StartsWith(rest, <<"/", "/">>)
            THEN after_netloc(Slice(rest, 2, Len(rest)), Find(Slice(rest, 2, Len(rest)), <<"/">>))
            ELSE rest
    IN  path(after_scheme(Find(url, <<":">>)))

\* lines 107-108
StripSlash(homepage_path) ==
    IF homepage_path[Len(homepage_path)] = "/"
    THEN Slice(homepage_path, 0, Len(homepage_path) - 1)
    ELSE homepage_path

\* line 110: homepage_path.rsplit("/", 1)[1]
Basename(homepage_path) ==
    Slice(homepage_path, RFind(homepage_path, "/") + 1, Len(homepage_path))

\* lines 109-112 without the test of line 106 that the path begins with a slash
RepairedAnyPath(whl_name, name, homepage_path) ==
    IF homepage_path # <<>> /\ StripSlash(homepage_path) # <<>>
       /\ StartsWith(whl_name, Basename(StripSlash(homepage_path)))
    THEN Basename(StripSlash(homepage_path))
    ELSE name

\* lines 106-112: the name of a wheel whose file name does not start with it
Repaired(whl_name, name, homepage_path) ==
    IF homepage_path # <<>> /\ homepage_path[1] = "/" /\ StripSlash(homepage_path) # <<>>
       /\ StartsWith(whl_name, Basename(StripSlash(homepage_path)))
    THEN Basename(StripSlash(homepage_path))
    ELSE name

\* trusted is lines 99-113 for what parse_pkg_metadata returned, from_member
\* lines 94-113 for what reading the member METADATA gave
get_metadata_from_wheel(whl_name, whl) ==
    LET trusted(parsed) ==
            IF ~StartsWith(whl_name, parsed.name)
            THEN Return([parsed EXCEPT !.trusted = FALSE,
                                       !.name = Repaired(whl_name, parsed.name,
                                                         UrlPath(parsed.homepage))])
            ELSE Return(parsed)
        from_parsed(parsed) == IF Raised(parsed) THEN parsed ELSE trusted(parsed.val)
        from_member(metadata) ==
            IF Raised(metadata) THEN Raise("metadata file not found")
            ELSE from_parsed(parse_pkg_metadata(metadata.val))
    IN  from_member(Extract(whl, PathJoin(FirstFields(whl_name, "-", 2) \o DistInfo,
                                          MetadataMember)))

ExtWhl == <<".", "w", "h", "l">>

ExtZip == <<".", "z", "i", "p">>

ExtTarGz == <<".", "t", "a", "r", ".", "g", "z">>

ExtTarBz2 == <<".", "t", "a", "r", ".", "b", "z", "2">>

\* _metadata_getter, in the order of the dict
Extensions == <<ExtWhl, ExtZip, ExtTarGz, ExtTarBz2>>

\* getter(f) for the getter registered under the extension
Getter(extension, f, archive) ==
    IF extension = ExtWhl THEN get_metadata_from_wheel(f, archive)
    ELSE get_metadata_from_archive(f, extension, archive)

-----------------------------------------------------------------------------
(* Name Reconciler *)

\* sorted(pkgs, key=trusted, reverse=True): the trusted ones first, each part
\* in the order given
SortTrustedFirst(pkgs) ==
    SelectSeq(pkgs, LAMBDA p : p.metadata.trusted)
        \o SelectSeq(pkgs, LAMBDA p : ~p.metadata.trusted)

\* the name of the last trusted package instead of the first (a later trusted
\* package overwriting trusted_name)
TrustedNameLast(sorted_pkgs) ==
    LET trusted == SelectSeq(sorted_pkgs, LAMBDA p : p.metadata.trusted)
    IN  trusted[Len(trusted)].metadata.name

\* trusted_name after the group of trusted packages: the name of the first
TrustedName(sorted_pkgs) == sorted_pkgs[1].metadata.name

\* The packages of one group with the names fix_pkg_names leaves them with,
\* in the order given (the function changes the packages in place);
\* sorted_pkgs is the group with its trusted packages first.
fix_pkg_names(pkgs) ==
    LET renamed(sorted_pkgs) ==
            IF pkgs = <<>> \/ ~sorted_pkgs[1].metadata.trusted THEN pkgs
            ELSE [i \in 1..Len(pkgs) |->
                     IF pkgs[i].metadata.trusted THEN pkgs[i]
                     ELSE [pkgs[i] EXCEPT !.metadata.name = TrustedName(sorted_pkgs)]]
    IN  renamed(SortTrustedFirst(pkgs))

-----------------------------------------------------------------------------
(* Metadata Cache *)

\* The content of a cache record: bytes that do not decode as text, text
\* that is not JSON, a JSON value that is no object, or a JSON object.
Undecodable == [kind |-> "undecodable", obj |-> <<>>]

NotJson == [kind |-> "notjson", obj |-> <<>>]

NonObject == [kind |-> "nonobject", obj |-> <<>>]

JsonObject(obj) == [kind |-> "object", obj |-> obj]

\* json.dump of the dict of the six attributes
\* json.dumps of a str: quoted, the quote and the backslash escaped
RECURSIVE Escape(_)
Escape(s) ==
    IF s = <<>> THEN <<>>
    ELSE (IF s[1] \in {"\"", "\\"} THEN <<"\\", s[1]>> ELSE <<s[1]>>) \o Escape(Tail(s))

JsonString(s) == <<"\"">> \o Escape(s) \o <<"\"">>

JsonTrue == <<"t", "r", "u", "e">>

JsonFalse == <<"f", "a", "l", "s", "e">>

\* json.dump of the six attributes: trusted is a bool, the others are str
JsonDump(metadata) ==
    JsonObject([attr \in Slots |->
                   IF attr = "trusted"
                   THEN (IF metadata.trusted THEN JsonTrue ELSE JsonFalse)
                   ELSE JsonString(metadata[attr])])

RECURSIVE Unescape(_)
Unescape(s) ==
    IF s = <<>> THEN <<>>
    ELSE IF s[1] = "\\" THEN <<s[2]>> \o Unescape(SubSeq(s, 3, Len(s)))
    ELSE <<s[1]>> \o Unescape(Tail(s))

\* the value of a member of a JSON object
JsonDecode(token) ==
    IF token = JsonTrue THEN TRUE
    ELSE IF token = JsonFalse THEN FALSE
    ELSE Unescape(SubSeq(token, 2, Len(token) - 1))

\* json.load(open(f + metadata_ext))
JsonLoad(recs, f) ==
    IF f \notin DOMAIN recs THEN Raise("FileNotFoundError")
    ELSE IF recs[f].kind = "undecodable" THEN Raise("UnicodeDecodeError")
    ELSE IF recs[f].kind = "notjson" THEN Raise("JSONDecodeError")
    ELSE IF recs[f].kind # "object" THEN Return(recs[f])
    ELSE Return(JsonObject([attr \in DOMAIN recs[f].obj |-> JsonDecode(recs[f].obj[attr])]))

\* a load that takes the four required fields of the record only
MetadataFromRequired(json) ==
    IF json.kind # "object" THEN Raise("TypeError")
    ELSE IF ~(Required \subseteq DOMAIN json.obj /\ DOMAIN json.obj \subseteq Slots)
    THEN Raise("TypeError")
    ELSE Return(Metadata(json.obj.name, json.obj.norm_name, json.obj.version,
                         json.obj.homepage, TRUE, <<>>))

\* Metadata(**metadata_json)
MetadataFromDict(json) ==
    IF json.kind # "object" THEN Raise("TypeError")
    ELSE IF ~(Required \subseteq DOMAIN json.obj /\ DOMAIN json.obj \subseteq Slots)
    THEN Raise("TypeError")
    ELSE LET get(attr, default) ==
                 IF attr \in DOMAIN json.obj THEN json.obj[attr] ELSE default
         IN  Return(Metadata(json.obj.name, json.obj.norm_name, json.obj.version,
                             json.obj.homepage, get("trusted", TRUE), get("sha256", <<>>)))

\* None
None == [none |-> TRUE]

\* built is lines 141-145 for what Metadata(**metadata_json) gave, loaded
\* lines 135-145 for what json.load gave
get_metadata_from_json(recs, f) ==
    LET built(metadata) == IF metadata.exc = "TypeError" THEN Return(None) ELSE metadata
        loaded(metadata_json) ==
            IF metadata_json.exc \in {"FileNotFoundError", "JSONDecodeError"}
            THEN Return(None)
            ELSE IF Raised(metadata_json) THEN metadata_json
            ELSE built(MetadataFromDict(metadata_json.val))
    IN  loaded(JsonLoad(recs, f))

\* hashlib.sha256(bytes).hexdigest(): distinct bytes, distinct digests
Sha256(bytes) == <<"#">> \o bytes[1] \o <<Chr(48 + bytes[2])>>

\* open(f, "rb").read(): the artifact's name and the revision of its bytes
ReadBytes(fs, f) == <<f, fs[f]>>

-----------------------------------------------------------------------------
(* The artifacts the download directory may hold *)

\* a_b-1-x.whl: a wheel whose METADATA declares the name its file name starts with
WheelV1 == <<"a", "_", "b", "-", "1", "-", "x">> \o <<".", "w", "h", "l">>

\* a_b-2-x.whl: a wheel that declares the name a-b and a home page ending in /a
WheelV2 == <<"a", "_", "b", "-", "2", "-", "x">> \o <<".", "w", "h", "l">>

\* A-b-1.tar.gz: a source archive without PKG-INFO
SdistV1 == <<"A", "-", "b", "-", "1">> \o <<".", "t", "a", "r", ".", "g", "z">>

\* .c-1.zip: a source archive with PKG-INFO whose file name starts with a dot
DotZip == <<".", "c", "-", "1">> \o <<".", "z", "i", "p">>

\* d-1.tgz: a source archive whose extension has no getter
Tgz == <<"d", "-", "1">> \o <<".", "t", "g", "z">>

FileNames == {WheelV1, WheelV2, SdistV1, DotZip, Tgz}

\* zipfile.ZipFile(f), tarfile.open(f): the members of each artifact
Archive(f) ==
    IF f = WheelV1 THEN
        (<<"a", "_", "b", "-", "1">> \o DistInfo \o <<"/">> \o MetadataMember) :>
            <<Line("Metadata-Version:", <<"2", ".", "1">>),
              Line("Name:", <<"a", "_", "b">>),
              Line("Version:", <<"1">>)>>
    ELSE IF f = WheelV2 THEN
        (<<"a", "_", "b", "-", "2">> \o DistInfo \o <<"/">> \o MetadataMember) :>
            <<Line("Name:", <<"a", "-", "b">>),
              Line("Version:", <<"2">>),
              Line("Home-page:", <<"h", "t", "t", "p", ":", "/", "/", "h", "/", "a">>)>>
    ELSE IF f = DotZip THEN
        (<<".", "c", "-", "1", "/">> \o PkgInfo) :>
            <<Line("Name:", <<"c">>), Line("Version:", <<"1">>)>>
    ELSE <<>>

-----------------------------------------------------------------------------
(* Listing the download directory *)

\* the extensions of _metadata_getter that f ends with, first is the getter's
FirstExtension(f) ==
    LET hits == {i \in 1..Len(Extensions) : EndsWith(f, Extensions[i])}
    IN  IF hits = {} THEN 0 ELSE CHOOSE i \in hits : \A j \in hits : i <= j

\* lines 152-154 and 159 for every artifact: what the getter of its extension
\* extracts from it
Extracted ==
    [f \in FileNames |->
        LET e == FirstExtension(f)
        IN  IF e = 0 THEN Raise("unknown extension")
            ELSE Getter(Extensions[e], f, Archive(f))]

\* line 150: cached is what get_metadata_from_json returned
IsNone(cached) == ~Raised(cached) /\ cached.val = None

\* line 150: no metadata came from the cache record, so the getter of the
\* artifact's extension is called
CallsGetter(recs, f) == IsNone(get_metadata_from_json(recs, f))

\* the hash computed from the artifact's bytes whether or not a record was loaded
HashedAlways(fs, f, cached, metadata) ==
    IF Raised(cached) THEN cached
    ELSE IF ~IsNone(cached)
    THEN Return([cached.val EXCEPT !.sha256 = Sha256(ReadBytes(fs, f))])
    ELSE IF Raised(metadata) THEN metadata
    ELSE Return([metadata.val EXCEPT !.sha256 = Sha256(ReadBytes(fs, f))])

\* lines 149-159: cached is what get_metadata_from_json returned, metadata
\* what the getter of the artifact's extension extracts
Hashed(fs, f, cached, metadata) ==
    IF Raised(cached) THEN cached
    ELSE IF ~IsNone(cached) THEN cached
    ELSE IF Raised(metadata) THEN metadata
    ELSE Return([metadata.val EXCEPT !.sha256 = Sha256(ReadBytes(fs, f))])

get_pkg_metadata(fs, recs, f) == Hashed(fs, f, get_metadata_from_json(recs, f), Extracted[f])

get_pkg(fs, recs, f) ==
    LET processed(metadata) ==
            IF Raised(metadata) THEN Raise("error while processing")
            ELSE Return(Pkg(f, metadata.val))
    IN  processed(get_pkg_metadata(fs, recs, f))

\* The packages of pkgs whose normalized name is norm_name, in their order.
GroupOf(pkgs, norm_name) == SelectSeq(pkgs, LAMBDA p : p.metadata.norm_name = norm_name)

\* The keys itertools.groupby meets in sorted(pkgs, key=norm_name): a group
\* begins where the key changes.
GroupKeys(pkgs) ==
    LET keys_at(sorted, firsts) ==
            [k \in 1..Cardinality(firsts) |->
                sorted[CHOOSE i \in firsts :
                           Cardinality({j \in firsts : j <= i}) = k].metadata.norm_name]
        keys_of(sorted) ==
            keys_at(sorted, {i \in 1..Len(sorted) :
                                i = 1 \/ sorted[i].metadata.norm_name
                                             # sorted[i - 1].metadata.norm_name})
    IN  keys_of(SortedByKey(pkgs, [i \in 1..Len(pkgs) |-> pkgs[i].metadata.norm_name]))

\* lines 230-233: every group of equal normalized name reconciled; the
\* packages keep their places in all_pkgs, only their names change
FixAllNames(all_pkgs) ==
    [i \in 1..Len(all_pkgs) |->
        fix_pkg_names(GroupOf(all_pkgs, all_pkgs[i].metadata.norm_name))[
            Cardinality({j \in 1..i : all_pkgs[j].metadata.norm_name
                                          = all_pkgs[i].metadata.norm_name})]]

\* listing: list_dir(download_dir, test), the artifacts in the order
\* os.listdir gave; got is what get_pkg returned for each of them
list_pkgs(fs, recs, listing, fix_names) ==
    LET collected(got) ==
            IF \E i \in 1..Len(got) : Raised(got[i]) THEN Raise("error while processing")
            ELSE IF fix_names THEN Return(FixAllNames([i \in 1..Len(got) |-> got[i].val]))
            ELSE Return([i \in 1..Len(got) |-> got[i].val])
    IN  collected([i \in 1..Len(listing) |-> get_pkg(fs, recs, listing[i])])

-----------------------------------------------------------------------------
(* Version ordering *)

\* A component of LooseVersion(v).version: an int or a str.
IntComp(n) == [int |-> TRUE, n |-> n, s |-> <<>>]

StrComp(s) == [int |-> FALSE, n |-> 0, s |-> s]

\* int(x) for a run of decimal digits
RECURSIVE ParseInt(_)
ParseInt(x) ==
    IF x = <<>> THEN 0 ELSE 10 * ParseInt(SubSeq(x, 1, Len(x) - 1)) + (Ord(x[Len(x)]) - 48)

\* component_re = (\d+ | [a-z]+ | \.): what kind of match a character takes part in
CharClass(c) ==
    IF IsDigit(c) THEN "digits"
    ELSE IF IsLowerAlpha(c) THEN "letters"
    ELSE IF c = "." THEN "dot"
    ELSE "between"

\* the length of the longest prefix of v made of characters of one class
RECURSIVE RunLength(_, _)
RunLength(v, class) ==
    IF v # <<>> /\ CharClass(v[1]) = class THEN 1 + RunLength(Tail(v), class) ELSE 0

\* LooseVersion.parse: component_re.split(vstring) without the empty strings
\* and the dots, the digit runs converted by int()
RECURSIVE Components(_)
Components(v) ==
    IF v = <<>> THEN <<>>
    ELSE IF v[1] = "." THEN Components(Tail(v))
    ELSE LET n    == RunLength(v, CharClass(v[1]))
             x    == SubSeq(v, 1, n)
             rest == SubSeq(v, n + 1, Len(v))
         IN  <<IF IsDigit(v[1]) THEN IntComp(ParseInt(x)) ELSE StrComp(x)>> \o Components(rest)

\* LooseVersion(v).version: parse is not called, and the attribute not set,
\* for an empty version string
LooseVersion(v) ==
    IF v = <<>> THEN Raise("AttributeError") ELSE Return(Components(v))

\* a < b for two lists of components, as list.__lt__ decides it: "lt", "ge",
\* or "TypeError" when the first components that differ are an int and a str
ListLess(a, b) ==
    LET m     == IF Len(a) < Len(b) THEN Len(a) ELSE Len(b)
        diffs == {i \in 1..m : a[i] # b[i]}
        i     == CHOOSE d \in diffs : \A e \in diffs : d <= e
    IN  IF diffs = {} THEN (IF Len(a) < Len(b) THEN "lt" ELSE "ge")
        ELSE IF a[i].int # b[i].int THEN "TypeError"
        ELSE IF a[i].int THEN (IF a[i].n < b[i].n THEN "lt" ELSE "ge")
        ELSE IF StrLess(a[i].s, b[i].s) THEN "lt" ELSE "ge"

Reverse(xs) == [i \in 1..Len(xs) |-> xs[Len(xs) + 1 - i]]

\* The entries being sorted are <<key, value>> pairs.
KeyLess(x, y) == ListLess(x[1], y[1])

\* list.sort, count_run: the length of the run the list starts with, and
\* whether it descends; 0 when a comparison raises
RECURSIVE ExtendRun(_, _, _)
ExtendRun(xs, i, descending) ==
    IF i > Len(xs) THEN [n |-> Len(xs), descending |-> descending]
    ELSE LET c == KeyLess(xs[i], xs[i - 1])
         IN  IF c = "TypeError" THEN [n |-> 0, descending |-> descending]
             ELSE IF (c = "lt") = descending THEN ExtendRun(xs, i + 1, descending)
             ELSE [n |-> i - 1, descending |-> descending]

CountRun(xs) ==
    IF Len(xs) = 1 THEN [n |-> 1, descending |-> FALSE]
    ELSE LET c == KeyLess(xs[2], xs[1])
         IN  IF c = "TypeError" THEN [n |-> 0, descending |-> FALSE]
             ELSE ExtendRun(xs, 3, c = "lt")

\* list.sort, binarysort: where the pivot goes among xs[l..r-1]; 0 when a
\* comparison raises
RECURSIVE BinarySearch(_, _, _, _)
BinarySearch(xs, pivot, l, r) ==
    IF l >= r THEN l
    ELSE LET p == l + ((r - l) \div 2)
             c == KeyLess(pivot, xs[p])
         IN  IF c = "TypeError" THEN 0
             ELSE IF c = "lt" THEN BinarySearch(xs, pivot, l, p)
             ELSE BinarySearch(xs, pivot, p + 1, r)

\* list.sort, binarysort: xs[1..start-1] is sorted, the rest is inserted
RECURSIVE BinarySort(_, _)
BinarySort(xs, start) ==
    IF start > Len(xs) THEN Return(xs)
    ELSE LET l == BinarySearch(xs, xs[start], 1, start)
         IN  IF l = 0 THEN Raise("TypeError")
             ELSE BinarySort(SubSeq(xs, 1, l - 1) \o <<xs[start]>> \o SubSeq(xs, l, start - 1)
                                 \o SubSeq(xs, start + 1, Len(xs)),
                             start + 1)

\* list.sort for a list shorter than 64: the run the list starts with,
\* reversed when it descends, and the rest inserted by binary search
ListSort(xs) ==
    LET sort_run(run) ==
            IF run.n = 0 THEN Raise("TypeError")
            ELSE BinarySort((IF run.descending THEN Reverse(SubSeq(xs, 1, run.n))
                             ELSE SubSeq(xs, 1, run.n)) \o SubSeq(xs, run.n + 1, Len(xs)),
                            run.n + 1)
    IN  IF Len(xs) < 2 THEN Return(xs) ELSE sort_run(CountRun(xs))

\* sorted(versions, reverse=reverse, key=sort_fn): the keys are computed
\* first; a reverse sort reverses the list, sorts it and reverses the result
sort_versions(versions, reverse) ==
    LET values(xs) == [i \in 1..Len(xs) |-> xs[i][2]]
        result(sorted) ==
            IF Raised(sorted) THEN sorted
            ELSE Return(IF reverse THEN Reverse(values(sorted.val)) ELSE values(sorted.val))
        keyed(keys) == [i \in 1..Len(versions) |-> <<keys[i].val, versions[i]>>]
        sorted_by(keys) ==
            IF \E i \in 1..Len(versions) : Raised(keys[i]) THEN Raise("AttributeError")
            ELSE result(ListSort(IF reverse THEN Reverse(keyed(keys)) ELSE keyed(keys)))
    IN  sorted_by([i \in 1..Len(versions) |-> LooseVersion(versions[i])])

-----------------------------------------------------------------------------
(* Mirror Builder *)

EmptyFn == [x \in {} |-> x]

Restrict(f, S) == [x \in S |-> f[x]]

Without(f, x) == Restrict(f, DOMAIN f \ {x})

\* What a mirror subdirectory holds under an artifact's basename: a relative
\* symbolic link to the artifact, or a copy of the bytes it had.
Symlink(f) == [type |-> "symlink", target |-> f, bytes |-> <<>>]

CopyOf(bytes) == [type |-> "file", target |-> <<>>, bytes |-> bytes]

\* A mirror subdirectory: its entries, and index.html when written (a
\* sequence of no or one page).
EmptyDir == [entries |-> EmptyFn, index |-> <<>>]

\* the anchors of the root page: <<norm_name, name>> of every group
generate_root_html(pkg_names) == pkg_names

\* the heading and the anchors <<basename, sha256>> of a package page
generate_pkg_html(pkgs) ==
    [title   |-> pkgs[1].metadata.name,
     anchors |-> [i \in 1..Len(pkgs) |-> <<pkgs[i].file, pkgs[i].metadata.sha256>>]]

\* lines 300-308: the packages of a group linked or copied into the group's
\* directory, one after the other; shutil.copy raises SameFileError when the
\* destination is a link to the artifact
RECURSIVE LinkPkgs(_, _, _, _)
LinkPkgs(entries, pkgs, fs, copy) ==
    IF pkgs = <<>> THEN [entries |-> entries, exc |-> ""]
    ELSE LET pkg  == Head(pkgs)
             dest == pkg.file
         IN  IF copy
             THEN IF dest \in DOMAIN entries /\ entries[dest].type = "symlink"
                  THEN [entries |-> entries, exc |-> "SameFileError"]
                  ELSE LinkPkgs((dest :> CopyOf(ReadBytes(fs, pkg.file))) @@ entries,
                                Tail(pkgs), fs, copy)
             ELSE IF dest \in DOMAIN entries
                  THEN LinkPkgs(entries, Tail(pkgs), fs, copy)
                  ELSE LinkPkgs((dest :> Symlink(pkg.file)) @@ entries, Tail(pkgs), fs, copy)

\* the name of the last package of the group instead of the first
DisplayNameLast(pkgs) == pkgs[Len(pkgs)].metadata.name

\* line 311: the name a group is listed under on the root page
DisplayName(pkgs) == pkgs[1].metadata.name

\* line 296-297: the group's directory, made when it is not there
PkgDir(m, pkg_norm_name) == IF pkg_norm_name \in DOMAIN m THEN m[pkg_norm_name] ELSE EmptyDir

\* lines 296-311 for one group: the mirror directory, the pairs for the root
\* page, and the exception that ended it; linked is what lines 300-308 left
MirrorGroup(st, pkg_norm_name, pkgs, fs, copy) ==
    LET written(linked) ==
            IF linked.exc # ""
            THEN [mirror    |-> (pkg_norm_name :> [PkgDir(st.mirror, pkg_norm_name)
                                                      EXCEPT !.entries = linked.entries])
                                    @@ st.mirror,
                  pkg_names |-> st.pkg_names,
                  exc       |-> linked.exc]
            ELSE [mirror    |-> (pkg_norm_name :> [entries |-> linked.entries,
                                                   index   |-> <<generate_pkg_html(pkgs)>>])
                                    @@ st.mirror,
                  pkg_names |-> Append(st.pkg_names, <<pkg_norm_name, DisplayName(pkgs)>>),
                  exc       |-> ""]
    IN  written(LinkPkgs(PkgDir(st.mirror, pkg_norm_name).entries, pkgs, fs, copy))

\* lines 295-311, the groups of keys one after the other until one raises
RECURSIVE MirrorGroups(_, _, _, _, _)
MirrorGroups(st, keys, sorted_pkgs, fs, copy) ==
    IF keys = <<>> \/ st.exc # "" THEN st
    ELSE MirrorGroups(MirrorGroup(st, Head(keys),
                                  fix_pkg_names(GroupOf(sorted_pkgs, Head(keys))), fs, copy),
                      Tail(keys), sorted_pkgs, fs, copy)

\* create_mirror for the packages pkgs: the mirror directory and the root page
\* it leaves, and the exception it raised; the root page is written when no
\* group raised
create_mirror(m, r, pkgs, fs, copy) ==
    LET finished(built) ==
            [mirror |-> built.mirror,
             root   |-> IF built.exc = "" THEN <<generate_root_html(built.pkg_names)>> ELSE r,
             exc    |-> built.exc]
    IN  finished(MirrorGroups([mirror |-> m, pkg_names |-> <<>>, exc |-> ""],
                              GroupKeys(pkgs), pkgs, fs, copy))

-----------------------------------------------------------------------------
(* Cache store *)

\* glob.glob(os.path.join(download_dir, "*" + metadata_ext)): the records
\* the pattern matches; "*" matches no name that starts with a dot
GlobRecords(recs) == {f \in DOMAIN recs : f[1] # "."}

\* lines 321-329: a record written for every package that has none
StoreRecords(recs, pkgs) ==
    LET new == {i \in 1..Len(pkgs) : pkgs[i].file \notin DOMAIN recs}
    IN  [f \in DOMAIN recs \cup {pkgs[i].file : i \in new} |->
            IF f \in DOMAIN recs THEN recs[f]
            ELSE JsonDump(pkgs[CHOOSE i \in new : pkgs[i].file = f].metadata)]

\* create_metadata_files: the records it leaves, and the exception it raised;
\* with overwrite the records the pattern matches are removed first
create_metadata_files(fs, recs, listing, overwrite) ==
    LET written(kept, listed) ==
            IF Raised(listed) THEN [records |-> kept, exc |-> listed.exc]
            ELSE [records |-> StoreRecords(kept, listed.val), exc |-> ""]
        listed_from(kept) == written(kept, list_pkgs(fs, kept, listing, TRUE))
    IN  listed_from(IF overwrite THEN Restrict(recs, DOMAIN recs \ GlobRecords(recs))
                    ELSE recs)

-----------------------------------------------------------------------------
(* Delete *)

\* list_pkg_by_names: the packages of list_pkgs sorted by name (collated by
\* code point, as locale.strxfrm does in the C locale)
SortByName(pkgs) ==
    SortedByKey(pkgs, [i \in 1..Len(pkgs) |-> pkgs[i].metadata.name])

\* a count that is one too high, so that a directory holding only the index
\* file is kept
NbFilesPlusOne(dir) == Cardinality(DOMAIN dir.entries) + Len(dir.index) + 1

\* len(os.listdir(pkg_mirror_dir))
NbFiles(dir) == Cardinality(DOMAIN dir.entries) + Len(dir.index)

\* lines 657-676: one package removed from the mirror and the download
\* directory; the link is removed from the group's directory, and the
\* directory too when it then holds fewer than two files
RemovePkg(st, pkg) ==
    LET unlinked(m, norm_name, basename) ==
            IF norm_name \in DOMAIN m /\ basename \in DOMAIN m[norm_name].entries
            THEN [m EXCEPT ![norm_name].entries = Without(@, basename)]
            ELSE m
        pruned(m, norm_name) ==
            IF norm_name \in DOMAIN m /\ NbFiles(m[norm_name]) < 2
            THEN Without(m, norm_name)
            ELSE m
    IN  [files   |-> Without(st.files, pkg.file),
         records |-> IF pkg.file \in DOMAIN st.records THEN Without(st.records, pkg.file)
                     ELSE st.records,
         mirror  |-> pruned(unlinked(st.mirror, pkg.metadata.norm_name, pkg.file),
                            pkg.metadata.norm_name)]

RECURSIVE RemovePkgs(_, _)
RemovePkgs(st, to_remove) ==
    IF to_remove = <<>> THEN st
    ELSE RemovePkgs(RemovePkg(st, Head(to_remove)), Tail(to_remove))

\* The ways DeleteCmd selects what it removes: the whole package, --version,
\* --keep-latest.
SelectAll == [mode |-> "all", version |-> <<>>, keep_latest |-> 0]

SelectVersion(v) == [mode |-> "version", version |-> v, keep_latest |-> 0]

SelectKeepLatest(n) == [mode |-> "keep-latest", version |-> <<>>, keep_latest |-> n]

\* lines 636-652 for the group named args.pkg[0]: what to remove, what
\* remains; versions is the order the set of versions is iterated in
SelectPkgs(pkgs, select, versions) ==
    LET split(latest_versions) ==
            Return([to_remove |-> SelectSeq(pkgs, LAMBDA p :
                                      p.metadata.version \notin latest_versions),
                    remaining |-> SelectSeq(pkgs, LAMBDA p :
                                      p.metadata.version \in latest_versions)])
        keep(sorted) ==
            IF Raised(sorted) THEN sorted
            ELSE split({sorted.val[i] :
                          i \in 1..(IF select.keep_latest < Len(sorted.val)
                                    THEN select.keep_latest ELSE Len(sorted.val))})
    IN  IF select.mode = "version"
        THEN Return([to_remove |-> SelectSeq(pkgs, LAMBDA p :
                                       p.metadata.version = select.version),
                     remaining |-> SelectSeq(pkgs, LAMBDA p :
                                       p.metadata.version # select.version)])
        ELSE IF select.mode = "keep-latest" THEN keep(sort_versions(versions, TRUE))
        ELSE Return([to_remove |-> pkgs, remaining |-> <<>>])

VersionsOf(pkgs) == {pkgs[i].metadata.version : i \in 1..Len(pkgs)}

\* the packages of by_name named pkg_name
Named(by_name, pkg_name) == SelectSeq(by_name, LAMBDA p : p.metadata.name = pkg_name)

\* lines 629-652: remaining_pkgs and to_remove over the groups of equal
\* name, in the order of the names
PlanDelete(by_name, pkg_name, select, versions) ==
    LET planned(selected) ==
            IF Raised(selected) THEN selected
            ELSE Return([to_remove |-> selected.val.to_remove,
                         remaining |->
                             SelectSeq(by_name, LAMBDA p : StrLess(p.metadata.name, pkg_name))
                                 \o selected.val.remaining
                                 \o SelectSeq(by_name, LAMBDA p :
                                        StrLess(pkg_name, p.metadata.name))])
    IN  IF Named(by_name, pkg_name) = <<>>
        THEN Return([to_remove |-> <<>>, remaining |-> by_name])
        ELSE planned(SelectPkgs(Named(by_name, pkg_name), select, versions))

-----------------------------------------------------------------------------
(* The commands and the environment of the download and mirror directories *)

\* how many artifacts the download directory holds at a time
MaxFiles == 2

\* how many times the bytes of an artifact are replaced
MaxRev == 1

\* how many cache records are damaged at a time
MaxCorrupt == 1

\* the largest N of --keep-latest N
MaxKeep == 1

\* PKG of the delete command
PkgArgs == {<<"a", "_", "b">>, <<"A", "-", "b">>, <<"a">>}

\* VERSION of delete --version
VersionArgs == {<<"1">>, <<"2">>}

Selections ==
    {SelectAll} \cup {SelectVersion(v) : v \in VersionArgs}
        \cup {SelectKeepLatest(n) : n \in 0..MaxKeep}

\* Records that json.load or Metadata(**metadata_json) rejects.
LackingFields ==
    JsonObject([name |-> JsonString(<<"a">>), norm_name |-> JsonString(<<"a">>)])

UnknownField ==
    JsonObject([name |-> JsonString(<<"a">>), norm_name |-> JsonString(<<"a">>),
                version |-> JsonString(<<"1">>), homepage |-> JsonString(<<>>),
                trusted |-> JsonTrue, sha256 |-> JsonString(<<>>),
                author |-> JsonString(<<"x">>)])

DamagedRecords == {Undecodable, NotJson, NonObject, LackingFields, UnknownField}

\* The last command: its name, its exit code, its options, the order the
\* download directory was listed in, and for delete the packages it removed
\* (with --dry-run: the packages it printed).
Ran(cmd, exit, flags, listing, removed) ==
    [cmd |-> cmd, exit |-> exit, flags |-> flags, listing |-> listing, removed |-> removed]

Flags(overwrite, no_mirror_update, dry_run) ==
    (IF overwrite THEN {"overwrite"} ELSE {})
        \cup (IF no_mirror_update THEN {"no-mirror-update"} ELSE {})
        \cup (IF dry_run THEN {"dry-run"} ELSE {})

Init ==
    /\ files = EmptyFn
    /\ records = EmptyFn
    /\ mirror = EmptyFn
    /\ root = <<>>
    /\ last = Ran("none", 0, {}, <<>>, <<>>)
    /\ arg = <<>>
    /\ res = <<>>

\* An artifact is written to the download directory.
StoreArtifact(f) ==
    /\ f \notin DOMAIN files
    /\ Cardinality(DOMAIN files) < MaxFiles
    /\ files' = (f :> 0) @@ files
    /\ last' = Ran("store", 0, {}, <<>>, <<>>)
    /\ UNCHANGED <<records, mirror, root, arg, res>>

\* The bytes of an artifact are replaced.
ReplaceContents(f) ==
    /\ f \in DOMAIN files
    /\ files[f] < MaxRev
    /\ files' = [files EXCEPT ![f] = @ + 1]
    /\ last' = Ran("replace", 0, {}, <<>>, <<>>)
    /\ UNCHANGED <<records, mirror, root, arg, res>>

\* The cache record of an artifact is damaged.
DamageRecord(f, content) ==
    /\ f \in DOMAIN files
    /\ Cardinality({g \in DOMAIN records : records[g] \in DamagedRecords} \ {f}) < MaxCorrupt
    /\ records' = (f :> content) @@ records
    /\ last' = Ran("damage", 0, {}, <<>>, <<>>)
    /\ UNCHANGED <<files, mirror, root, arg, res>>

\* WriteMetadataCmd.run
WriteMetadataCmd(overwrite) ==
    \E listing \in Orderings(DOMAIN files) :
        \E done \in {create_metadata_files(files, records, listing, overwrite)} :
            /\ records' = done.records
            /\ last' = Ran("write-metadata", IF done.exc = "" THEN 0 ELSE 1,
                           Flags(overwrite, FALSE, FALSE), <<>>, <<>>)
            /\ UNCHANGED <<files, mirror, root, arg, res>>

\* CreateCmd.run
CreateCmd(copy) ==
    \E listing \in Orderings(DOMAIN files) :
        \E pkgs \in {list_pkgs(files, records, listing, FALSE)} :
            IF Raised(pkgs)
            THEN /\ last' = Ran("create", 1, {}, listing, <<>>)
                 /\ UNCHANGED <<files, records, mirror, root, arg, res>>
            ELSE \E built \in {create_mirror(mirror, root, pkgs.val, files, copy)} :
                     /\ mirror' = built.mirror
                     /\ root' = built.root
                     /\ last' = Ran("create", IF built.exc = "" THEN 0 ELSE 1, {},
                                    listing, <<>>)
                     /\ UNCHANGED <<files, records, arg, res>>

\* --dry-run not looked at: only an empty to_remove leaves everything alone
NothingToRemoveUnlessListed(to_remove, dry_run) == to_remove = <<>>

\* lines 653-656 and 677: with --dry-run the packages of to_remove are
\* printed and nothing is removed, and the mirror is not created anew
NothingToRemove(to_remove, dry_run) == dry_run \/ to_remove = <<>>

\* DeleteCmd.run from line 653 on: the packages of to_remove are removed and,
\* unless --no-mirror-update is given, the mirror is created anew
DeletePlanned(plan, removed, flags, no_mirror_update, copy) ==
    IF no_mirror_update
    THEN /\ files' = removed.files
         /\ records' = removed.records
         /\ mirror' = removed.mirror
         /\ last' = Ran("delete", 0, flags, <<>>, plan.to_remove)
         /\ UNCHANGED <<root, arg, res>>
    ELSE \E built \in {create_mirror(removed.mirror, root, plan.remaining,
                                     removed.files, copy)} :
             /\ files' = removed.files
             /\ records' = removed.records
             /\ mirror' = built.mirror
             /\ root' = built.root
             /\ last' = Ran("delete", IF built.exc = "" THEN 0 ELSE 1,
                            flags, <<>>, plan.to_remove)
             /\ UNCHANGED <<arg, res>>

\* DeleteCmd.run from line 630 on, by_name the packages list_pkg_by_names gave
DeleteListed(by_name, listing, pkg_name, select, no_mirror_update, dry_run, copy) ==
    \E versions \in Orderings(VersionsOf(Named(by_name, pkg_name))) :
        \E plan \in {PlanDelete(by_name, pkg_name, select, versions)} :
            IF Raised(plan)
            THEN /\ last' = Ran("delete", 1, Flags(FALSE, no_mirror_update, dry_run),
                                <<>>, <<>>)
                 /\ UNCHANGED <<files, records, mirror, root, arg, res>>
            ELSE IF NothingToRemove(plan.val.to_remove, dry_run)
            THEN /\ last' = Ran("delete", 0, Flags(FALSE, no_mirror_update, dry_run),
                                <<>>, plan.val.to_remove)
                 /\ UNCHANGED <<files, records, mirror, root, arg, res>>
            ELSE DeletePlanned(plan.val,
                               RemovePkgs([files |-> files, records |-> records,
                                           mirror |-> mirror], plan.val.to_remove),
                               Flags(FALSE, no_mirror_update, dry_run),
                               no_mirror_update, copy)

\* DeleteCmd.run
DeleteCmd ==
    \E listing \in Orderings(DOMAIN files) :
        \E listed \in {list_pkgs(files, records, listing, TRUE)} :
            IF Raised(listed)
            THEN /\ last' = Ran("delete", 1, {}, <<>>, <<>>)
                 /\ UNCHANGED <<files, records, mirror, root, arg, res>>
            ELSE \E pkg_name \in PkgArgs, select \in Selections,
                    no_mirror_update \in BOOLEAN, dry_run \in BOOLEAN, copy \in BOOLEAN :
                    DeleteListed(SortByName(listed.val), listing, pkg_name, select,
                                 no_mirror_update, dry_run, copy)

\* the artifacts of the mirror's life cycle
MirrorFiles == {WheelV1, WheelV2, SdistV1}

Next ==
    \/ \E f \in MirrorFiles : StoreArtifact(f)
    \/ WriteMetadataCmd(FALSE)
    \/ \E copy \in BOOLEAN : CreateCmd(copy)
    \/ DeleteCmd

Spec == Init /\ [][Next]_vars

\* the artifacts of the cache's life cycle
CacheFiles == {WheelV2, SdistV1, DotZip}

CacheNext ==
    \/ \E f \in CacheFiles : StoreArtifact(f)
    \/ \E f \in CacheFiles : ReplaceContents(f)
    \/ \E f \in CacheFiles, content \in DamagedRecords : DamageRecord(f, content)
    \/ \E overwrite \in BOOLEAN : WriteMetadataCmd(overwrite)
    \/ CreateCmd(FALSE)

CacheSpec == Init /\ [][CacheNext]_vars

\* the metadata get_pkg_metadata returns for an artifact of the download directory
MetadataOf(f) == get_pkg_metadata(files, records, f)

\* the record of f is a JSON object that Metadata(**metadata_json) accepts
Loadable(f) ==
    /\ f \in DOMAIN records
    /\ records[f].kind = "object"
    /\ Required \subseteq DOMAIN records[f].obj
    /\ DOMAIN records[f].obj \subseteq Slots

\* the hash a loadable record holds
StoredHash(f) ==
    IF "sha256" \in DOMAIN records[f].obj THEN JsonDecode(records[f].obj.sha256) ELSE <<>>

\* the hash of the bytes the artifact has now
FreshHash(f) == Sha256(ReadBytes(files, f))

\* the anchors of the page of the group norm_name
Anchors(norm_name) ==
    IF norm_name \in DOMAIN mirror /\ mirror[norm_name].index # <<>>
    THEN {mirror[norm_name].index[1].anchors[i] :
             i \in 1..Len(mirror[norm_name].index[1].anchors)}
    ELSE {}

\* the mirror was built by the last command, which completed
MirrorBuilt == last.cmd = "create" /\ last.exit = 0

\* C2: every metadata value the program produces has norm_name = normalize(name):
\* as get_pkg_metadata returns it, from the archive or from the cache record,
\* and as list_pkgs leaves it after reconciling the names.
C2_NormNameInvariant ==
    /\ \A f \in DOMAIN files :
           ~Raised(MetadataOf(f)) =>
               MetadataOf(f).val.norm_name = normalize(MetadataOf(f).val.name)
    /\ \A listing \in Orderings(DOMAIN files) :
           LET pkgs == list_pkgs(files, records, listing, TRUE)
           IN  ~Raised(pkgs) =>
                   \A i \in 1..Len(pkgs.val) :
                       pkgs.val[i].metadata.norm_name = normalize(pkgs.val[i].metadata.name)

\* C3, as stated: the hash get_pkg_metadata returns is that of the bytes the
\* artifact has now, whether or not it has a cache record.
C3_AlwaysFreshHash ==
    \A f \in DOMAIN files :
        ~Raised(MetadataOf(f)) => MetadataOf(f).val.sha256 = FreshHash(f)

\* C3: the hash get_pkg_metadata returns is the one the artifact's cache record
\* holds when the record loads, and that of the bytes the artifact has now
\* when it does not; the link of the package page built from it carries it.
C3_HashOfRecordOrFile ==
    \A f \in DOMAIN files :
        ~Raised(MetadataOf(f)) =>
            /\ MetadataOf(f).val.sha256 = IF Loadable(f) THEN StoredHash(f) ELSE FreshHash(f)
            /\ MirrorBuilt =>
                   <<f, MetadataOf(f).val.sha256>> \in Anchors(MetadataOf(f).val.norm_name)

\* a mirror built after the bytes of an artifact with a record were replaced:
\* the link of the page carries the hash of the record, not that of the bytes
C3_Witness ==
    /\ MirrorBuilt
    /\ \E f \in DOMAIN files :
           /\ Loadable(f)
           /\ files[f] = 1
           /\ StoredHash(f) = Sha256(<<f, 0>>)
           /\ StoredHash(f) # FreshHash(f)
           /\ <<f, StoredHash(f)>> \in Anchors(MetadataOf(f).val.norm_name)

\* C5: get_metadata_from_json never raises: for a record that is missing or
\* that does not load it returns None, and get_pkg_metadata calls the getter.
C5_LoadNeverRaises ==
    \A f \in DOMAIN files :
        /\ ~Raised(get_metadata_from_json(records, f))
        /\ ~Loadable(f) =>
               /\ get_metadata_from_json(records, f).val = None
               /\ CallsGetter(records, f)
               /\ MetadataOf(f) =
                      (IF Raised(Extracted[f]) THEN Extracted[f]
                       ELSE Return([Extracted[f].val EXCEPT !.sha256 = FreshHash(f)]))

\* the download directory listed without any record, in every order
ListedAfresh ==
    {listed \in {list_pkgs(files, EmptyFn, listing, TRUE) : listing \in Orderings(DOMAIN files)} :
        ~Raised(listed)}

\* the records written from scratch for the artifact f
Regenerated(f) ==
    UNION {{JsonDump(listed.val[i].metadata) :
               i \in {j \in 1..Len(listed.val) : listed.val[j].file = f}} :
           listed \in ListedAfresh}

\* C6: a completed create_metadata_files without overwrite leaves every record
\* as it was and writes records only for artifacts that had none; with
\* overwrite every artifact's record is regenerated; in both modes every
\* artifact has a record afterwards.
C6_StoreFrame ==
    [][(last'.cmd = "write-metadata" /\ last'.exit = 0) =>
           /\ "overwrite" \notin last'.flags =>
                  /\ \A f \in DOMAIN records :
                         f \in DOMAIN records' /\ records'[f] = records[f]
                  /\ \A f \in DOMAIN records' \ DOMAIN records : f \in DOMAIN files
           /\ "overwrite" \in last'.flags =>
                  \A f \in DOMAIN files :
                      f \in DOMAIN records' /\ records'[f] \in Regenerated(f)
           /\ \A f \in DOMAIN files : f \in DOMAIN records']_vars

\* the download directory holds a wheel and a source archive of one project,
\* spelled a_b by the wheel and A-b by the name of the source archive
WheelAndSdist == DOMAIN files = {WheelV1, SdistV1}

\* both are linked in the subdirectory a-b
BothLinked ==
    /\ DOMAIN mirror = {<<"a", "-", "b">>}
    /\ DOMAIN mirror[<<"a", "-", "b">>].entries = {WheelV1, SdistV1}

\* the root page has one entry, a-b shown as name
RootShows(name) == root = <<<<<<<<"a", "-", "b">>, name>>>>>>

GroupLeft(norm_name) ==
    {f \in DOMAIN files :
        ~Raised(MetadataOf(f)) /\ MetadataOf(f).val.norm_name = norm_name}

\* the last command was a delete that removed something
Deleted == last.cmd = "delete" /\ last.removed # <<>> /\ "dry-run" \notin last.flags

\* a removed package, its record and its link are gone
Gone(pkg) ==
    LET norm_name == pkg.metadata.norm_name
    IN  /\ pkg.file \notin DOMAIN files
        /\ pkg.file \notin DOMAIN records
        /\ norm_name \in DOMAIN mirror => pkg.file \notin DOMAIN mirror[norm_name].entries

\* the subdirectory of a removed package's group is gone with the group's last
\* artifact, and links every artifact left otherwise
GroupDirRight(pkg) ==
    LET norm_name == pkg.metadata.norm_name
    IN  /\ GroupLeft(norm_name) = {} => norm_name \notin DOMAIN mirror
        /\ GroupLeft(norm_name) # {} =>
               /\ norm_name \in DOMAIN mirror
               /\ GroupLeft(norm_name) \subseteq DOMAIN mirror[norm_name].entries

\* the delete updated the mirror and completed
MirrorUpdated == last.exit = 0 /\ "no-mirror-update" \notin last.flags

C14_DryRunRemovesNothing ==
    [][(last'.cmd = "delete" /\ "dry-run" \in last'.flags) =>
           /\ UNCHANGED <<files, records, mirror, root>>
           /\ \A i \in 1..Len(last'.removed) : last'.removed[i].file \in DOMAIN files']_vars

\* a delete with --dry-run reported an artifact that has a cache record and
\* a link in the mirror, and all three are still there
C14_Witness ==
    /\ last.cmd = "delete"
    /\ "dry-run" \in last.flags
    /\ last.exit = 0
    /\ last.removed # <<>>
    /\ \A i \in 1..Len(last.removed) :
           /\ last.removed[i].file \in DOMAIN files
           /\ last.removed[i].file \in DOMAIN records
           /\ last.removed[i].metadata.norm_name \in DOMAIN mirror
           /\ last.removed[i].file
                  \in DOMAIN mirror[last.removed[i].metadata.norm_name].entries

-----------------------------------------------------------------------------
(* fix_pkg_names on one group *)

\* the largest group
MaxGroup == 3

\* spellings of one project: they share the normalized name ab
GroupNames == {<<"A", "b">>, <<"a", "b">>, <<"a", "B">>}

\* the i-th artifact of a group
GroupPkg(i, name, trusted) ==
    Pkg(<<Chr(48 + i)>>, Metadata(name, normalize(name), <<"1">>, <<>>, trusted, <<>>))

Groups ==
    UNION {{[i \in 1..n |-> GroupPkg(i, g[i][1], g[i][2])] : g \in [1..n -> GroupNames \X BOOLEAN]}
           : n \in 0..MaxGroup}

FixInit ==
    /\ arg \in Groups
    /\ res = <<>>
    /\ files = EmptyFn /\ records = EmptyFn /\ mirror = EmptyFn /\ root = <<>>
    /\ last = Ran("none", 0, {}, <<>>, <<>>)

FixPkgNames ==
    /\ res = <<>>
    /\ res' = <<fix_pkg_names(arg)>>
    /\ last' = Ran("fix_pkg_names", 0, {}, <<>>, <<>>)
    /\ UNCHANGED <<files, records, mirror, root, arg>>

FixNext == FixPkgNames

FixSpec == FixInit /\ [][FixNext]_vars

\* the positions of the trusted packages of a group
TrustedAt(pkgs) == {i \in 1..Len(pkgs) : pkgs[i].metadata.trusted}

FirstTrustedAt(pkgs) == CHOOSE i \in TrustedAt(pkgs) : \A j \in TrustedAt(pkgs) : i <= j

\* C1: fix_pkg_names leaves a group without a trusted package as it is;
\* otherwise every untrusted package gets the name of the first trusted package
\* in the order given, and no trusted package's name and no other field of any
\* package changes.
C1_FixPkgNames ==
    res # <<>> =>
        LET fixed == res[1]
        IN  /\ Len(fixed) = Len(arg)
            /\ TrustedAt(arg) = {} => fixed = arg
            /\ TrustedAt(arg) # {} =>
                   \A i \in 1..Len(arg) :
                       /\ fixed[i].metadata.name =
                              IF arg[i].metadata.trusted THEN arg[i].metadata.name
                              ELSE arg[FirstTrustedAt(arg)].metadata.name
                       /\ fixed[i].file = arg[i].file
                       /\ \A attr \in Slots \ {"name"} :
                              fixed[i].metadata[attr] = arg[i].metadata[attr]

\* a group reconciled whose untrusted package comes before two trusted packages
\* of different names, and has got the name of the first of them
C1_Witness ==
    /\ res # <<>>
    /\ Len(arg) = 3
    /\ TrustedAt(arg) = {2, 3}
    /\ arg[2].metadata.name # arg[3].metadata.name
    /\ arg[1].metadata.name # arg[2].metadata.name
    /\ res[1][1].metadata.name = arg[2].metadata.name

-----------------------------------------------------------------------------
(* get_metadata_from_wheel on one wheel *)

\* the longest project name, in a file name or declared in METADATA
MaxNameLen == 2

\* the longest path of a home page
MaxPathLen == 3

WheelNames == Strings({"a", "_", "-"}, 1, MaxNameLen)

\* home pages with and without scheme and host, and no home page at all
HomePages ==
    LET paths == Strings({"/", "a", "_"}, 0, MaxPathLen)
    IN  paths \cup {<<"h", "t", "t", "p", ":", "/", "/", "h">> \o path : path \in paths}

\* the wheel <name>-1-x.whl
WheelFile(name) == name \o <<"-", "1", "-", "x">> \o ExtWhl

\* its members: METADATA in the directory <name>-1.dist-info
WheelArchive(name, declared, homepage) ==
    (name \o <<"-", "1">> \o DistInfo \o <<"/">> \o MetadataMember) :>
        <<Line("Name:", declared), Line("Version:", <<"1">>), Line("Home-page:", homepage)>>

WheelInit ==
    /\ arg \in [whl_name : {WheelFile(name) : name \in WheelNames},
                declared : WheelNames,
                homepage : HomePages]
    /\ res = <<>>
    /\ files = EmptyFn /\ records = EmptyFn /\ mirror = EmptyFn /\ root = <<>>
    /\ last = Ran("none", 0, {}, <<>>, <<>>)

GetMetadataFromWheel ==
    /\ res = <<>>
    /\ res' = <<get_metadata_from_wheel(
                    arg.whl_name,
                    WheelArchive(Slice(arg.whl_name, 0, Find(arg.whl_name, <<"-", "1", "-", "x">>)),
                                 arg.declared, arg.homepage))>>
    /\ last' = Ran("get_metadata_from_wheel", 0, {}, <<>>, <<>>)
    /\ UNCHANGED <<files, records, mirror, root, arg>>

WheelNext == GetMetadataFromWheel

WheelSpec == WheelInit /\ [][WheelNext]_vars

\* a path without one trailing slash
StripOneSlash(path) ==
    IF path # <<>> /\ path[Len(path)] = "/" THEN SubSeq(path, 1, Len(path) - 1) ELSE path

\* what follows the last slash of a path
FinalSegment(path) ==
    LET slashes == {i \in 1..Len(path) : path[i] = "/"}
        from    == IF slashes = {} THEN 1
                   ELSE 1 + CHOOSE i \in slashes : \A j \in slashes : j <= i
    IN  SubSeq(path, from, Len(path))

\* the path of the home page, one trailing slash stripped: it has a final
\* segment when something is left of it
HomePath == StripOneSlash(UrlPath(arg.homepage))

Untrusted == ~StartsWith(arg.whl_name, arg.declared)

SegmentMatches == HomePath # <<>> /\ StartsWith(arg.whl_name, FinalSegment(HomePath))

\* the home page's path begins with a slash
AbsolutePath == UrlPath(arg.homepage) # <<>> /\ UrlPath(arg.homepage)[1] = "/"

\* the wheel has been read
WheelRead == res # <<>> /\ ~Raised(res[1])

\* C9, as stated: the result is untrusted iff the file name does not start with
\* the declared name; an untrusted result takes the final segment of the home
\* page's path as its name whenever that segment is a prefix of the file name,
\* and keeps the declared name otherwise; a trusted result keeps the declared name.
C9_AnySegmentRepairs ==
    WheelRead =>
        /\ res[1].val.trusted = ~Untrusted
        /\ Untrusted /\ SegmentMatches => res[1].val.name = FinalSegment(HomePath)
        /\ Untrusted /\ ~SegmentMatches => res[1].val.name = arg.declared
        /\ ~Untrusted => res[1].val.name = arg.declared

\* C9: the result is untrusted iff the file name does not start with the
\* declared name; an untrusted result takes the final segment of the home
\* page's path as its name when that path begins with a slash and the segment
\* is a prefix of the file name, and keeps the declared name otherwise; a
\* trusted result keeps the declared name.
C9_WheelNameRepair ==
    WheelRead =>
        /\ res[1].val.trusted = ~Untrusted
        /\ Untrusted /\ AbsolutePath /\ SegmentMatches =>
               res[1].val.name = FinalSegment(HomePath)
        /\ Untrusted /\ ~(AbsolutePath /\ SegmentMatches) => res[1].val.name = arg.declared
        /\ ~Untrusted => res[1].val.name = arg.declared

\* a wheel read whose name was repaired from the home page http://h/a
C9_Witness ==
    /\ WheelRead
    /\ Untrusted
    /\ arg.homepage = <<"h", "t", "t", "p", ":", "/", "/", "h", "/", "a">>
    /\ arg.declared = <<"a", "-">>
    /\ res[1].val.name = <<"a">>
    /\ ~res[1].val.trusted

-----------------------------------------------------------------------------
(* sort_versions on one list of versions *)

\* the longest list of versions
MaxVersions == 3

\* releases, a prerelease and versions with a textual field
VersionStrings ==
    {<<"1", ".", "9">>, <<"1", ".", "1", "0">>, <<"1", ".", "2">>,
     <<"1", ".", "0", "a", "1">>, <<"1", ".", "a">>, <<"2", ".", "a">>}

\* the lists of distinct versions
VersionLists ==
    {vs \in UNION {[1..n -> VersionStrings] : n \in 0..MaxVersions} :
        \A i, j \in 1..Len(vs) : i # j => vs[i] # vs[j]}

SortInit ==
    /\ arg \in VersionLists
    /\ res = <<>>
    /\ files = EmptyFn /\ records = EmptyFn /\ mirror = EmptyFn /\ root = <<>>
    /\ last = Ran("none", 0, {}, <<>>, <<>>)

SortVersions ==
    /\ res = <<>>
    /\ res' = <<sort_versions(arg, TRUE)>>
    /\ last' = Ran("sort_versions", 0, {}, <<>>, <<>>)
    /\ UNCHANGED <<files, records, mirror, root, arg>>

SortNext == SortVersions

SortSpec == SortInit /\ [][SortNext]_vars

\* C10: sort_versions never raises: whatever the versions, it returns a
\* permutation of them (and 1.9, 1.10, 1.2 come out as 1.10, 1.9, 1.2).
C10_SortNeverRaises ==
    res # <<>> =>
        /\ ~Raised(res[1])
        /\ Len(res[1].val) = Len(arg)
        /\ {res[1].val[i] : i \in 1..Len(arg)} = {arg[i] : i \in 1..Len(arg)}
        /\ arg = <<<<"1", ".", "9">>, <<"1", ".", "1", "0">>, <<"1", ".", "2">>>> =>
               res[1].val = <<<<"1", ".", "1", "0">>, <<"1", ".", "9">>, <<"1", ".", "2">>>>

-----------------------------------------------------------------------------
(* a cache record written and loaded *)

RoundTripFiles == {WheelV2, SdistV1}

\* metadata of every shape: the hash and the trust at their defaults and not,
\* the normalized name that of the name and not
MetadataValues ==
    {Metadata(name, norm_name, version, homepage, trusted, sha256) :
        name \in {<<"a">>, <<"A", "-", "b">>, <<"a", "\"", "\\">>},
        norm_name \in {<<"a">>, <<"a", "-", "b">>},
        version \in {<<>>, <<"1">>},
        homepage \in {<<>>, <<"h", "t", "t", "p", ":", "/", "/", "h", "/", "a">>},
        trusted \in BOOLEAN,
        sha256 \in {<<>>, Sha256(<<WheelV2, 0>>), Sha256(<<SdistV1, 0>>)}}

RoundTripInit ==
    /\ arg \in [f : RoundTripFiles, m : MetadataValues]
    /\ res = <<>>
    /\ files = (arg.f :> 0)
    /\ records = EmptyFn
    /\ mirror = EmptyFn /\ root = <<>>
    /\ last = Ran("none", 0, {}, <<>>, <<>>)

\* lines 322-329: the record of arg.f written from arg.m
WriteRecord ==
    /\ arg.f \notin DOMAIN records
    /\ records' = (arg.f :> JsonDump(arg.m))
    /\ last' = Ran("write", 0, {}, <<>>, <<>>)
    /\ UNCHANGED <<files, mirror, root, arg, res>>

\* get_pkg_metadata(arg.f), and whether a getter was called
LoadMetadata ==
    /\ res = <<>>
    /\ res' = <<[metadata |-> get_pkg_metadata(files, records, arg.f),
                 getter   |-> CallsGetter(records, arg.f)]>>
    /\ last' = Ran("load", 0, {}, <<>>, <<>>)
    /\ UNCHANGED <<files, records, mirror, root, arg>>

RoundTripNext == WriteRecord \/ LoadMetadata

RoundTripSpec == RoundTripInit /\ [][RoundTripNext]_vars

\* the metadata was loaded after its record was written
LoadedAfterWrite == res # <<>> /\ last.cmd = "load" /\ arg.f \in DOMAIN records

\* C7: the six fields of a metadata value written as the record of an artifact,
\* get_pkg_metadata of the artifact returns a value equal to it in the six
\* fields, and calls no getter.
C7_CacheRoundTrip ==
    LoadedAfterWrite =>
        /\ ~Raised(res[1].metadata)
        /\ \A attr \in Slots : res[1].metadata.val[attr] = arg.m[attr]
        /\ ~res[1].getter

\* a value loaded that differs in name, trust and hash from what the getter of
\* the artifact extracts
C7_Witness ==
    /\ LoadedAfterWrite
    /\ arg.f = SdistV1
    /\ arg.m.name = <<"a">>
    /\ ~arg.m.trusted
    /\ arg.m.sha256 = Sha256(<<WheelV2, 0>>)
    /\ res[1].metadata.val = arg.m


-----------------------------------------------------------------------------
(* The download command *)

\* how many packages one download command names
MaxPkgs == 2

\* how many requirements files one download command names
MaxReqs == 1

\* PKG of the download command
PkgNames == {<<"a", "_", "b">>, <<"d">>}

\* FILE of download --requirement
ReqFiles == {<<"r">>}

\* lists without repetition of at most n elements of S
Lists(S, n) == UNION {Orderings(T) : T \in {U \in SUBSET S : Cardinality(U) <= n}}

\* How subprocess.check_call(args) ends: the tool exits with 0, the tool
\* exits with another status (CalledProcessError), or the tool cannot be
\* started (an OSError such as FileNotFoundError).
Outcomes == {"", "CalledProcessError", "FileNotFoundError"}

\* what the external tool writes to the download directory for a package or
\* for a requirements file when it exits with 0
Fetched(target) ==
    IF target = <<"a", "_", "b">> THEN {WheelV2}
    ELSE IF target = <<"d">> THEN {Tgz}
    ELSE IF target = <<"r">> THEN {SdistV1}
    ELSE {}

\* download(pkgs, requirements, ...): one invocation of the external tool,
\* the download directory it leaves and the exception check_call raised
download(fs, pkgs, requirements, outcome) ==
    LET fetched == UNION {Fetched(pkgs[i]) : i \in 1..Len(pkgs)}
                       \cup UNION {Fetched(requirements[i]) : i \in 1..Len(requirements)}
    IN  [files |-> IF outcome = ""
                   THEN [f \in DOMAIN fs \cup fetched |-> IF f \in DOMAIN fs THEN fs[f] ELSE 0]
                   ELSE fs,
         exc   |-> outcome]

\* One invocation as the log keeps it.
Invocation(pkgs, requirements, exc) ==
    [pkgs |-> pkgs, requirements |-> requirements, exc |-> exc]

\* no exception caught: the first failing invocation ends the loop
CaughtNothing(exc) == exc

\* lines 537 and 546, except subprocess.CalledProcessError: the exception
\* that leaves the try statement
Caught(exc) == IF exc = "CalledProcessError" THEN "" ELSE exc

\* lines 534-551: the invocations of keep-going, one per target, as long as
\* none raises anything but CalledProcessError; a target is the arguments
\* <<pkgs, requirements>> of one invocation
RECURSIVE KeepGoing(_, _, _)
KeepGoing(st, targets, outcomes) ==
    IF targets = <<>> \/ st.exc # "" THEN st
    ELSE LET ran(done) ==
                 [files       |-> done.files,
                  invocations |-> Append(st.invocations,
                                         Invocation(targets[1][1], targets[1][2], done.exc)),
                  exc         |-> Caught(done.exc)]
         IN  KeepGoing(ran(download(st.files, targets[1][1], targets[1][2], outcomes[1])),
                       Tail(targets), Tail(outcomes))

\* lines 533-553: the targets of the invocations
Targets(pkgs, requirements, keep_going) ==
    IF keep_going
    THEN [i \in 1..Len(pkgs) |-> <<(<<pkgs[i]>>), <<>>>>]
             \o [i \in 1..Len(requirements) |-> <<(<<>>), <<requirements[i]>>>>]
    ELSE <<(<<pkgs, requirements>>)>>

\* lines 533-553: the invocations of the command; without keep-going the one
\* invocation's CalledProcessError is not caught
Invoke(fs, pkgs, requirements, keep_going, outcomes) ==
    LET ran(done) ==
            [files       |-> done.files,
             invocations |-> <<Invocation(pkgs, requirements, done.exc)>>,
             exc         |-> done.exc]
    IN  IF keep_going
        THEN KeepGoing([files |-> fs, invocations |-> <<>>, exc |-> ""],
                       Targets(pkgs, requirements, TRUE), outcomes)
        ELSE ran(download(fs, pkgs, requirements, outcomes[1]))

\* list_pkg_names: the names itertools.groupby meets in the packages sorted
\* by name
list_pkg_names(by_name) ==
    LET names_at(firsts) ==
            [k \in 1..Cardinality(firsts) |->
                by_name[CHOOSE i \in firsts :
                            Cardinality({j \in firsts : j <= i}) = k].metadata.name]
    IN  names_at({i \in 1..Len(by_name) :
                     i = 1 \/ by_name[i].metadata.name # by_name[i - 1].metadata.name})

\* What the last download command did: the packages and requirements files
\* it was given, the invocations of the external tool in their order, and
\* whether create_metadata_files was called.
Downloaded(pkg, requirements, invocations, recorded) ==
    [pkg |-> pkg, requirements |-> requirements, invocations |-> invocations,
     recorded |-> recorded]

\* DownloadCmd.run from line 533 on, pkgs being the packages to download
DownloadPkgs(pkg, pkgs, requirements, keep_going) ==
    \E outcomes \in [1..Len(Targets(pkgs, requirements, keep_going)) -> Outcomes] :
        \E done \in {Invoke(files, pkgs, requirements, keep_going, outcomes)} :
            IF done.exc # ""
            THEN /\ files' = done.files
                 /\ last' = Ran("download", 1, IF keep_going THEN {"keep-going"} ELSE {},
                                <<>>, <<>>)
                 /\ res' = <<Downloaded(pkg, requirements, done.invocations, FALSE)>>
                 /\ UNCHANGED <<records, mirror, root, arg>>
            ELSE \E listing \in Orderings(DOMAIN done.files) :
                     \E stored \in {create_metadata_files(done.files, records, listing, FALSE)} :
                         /\ files' = done.files
                         /\ records' = stored.records
                         /\ last' = Ran("download", IF stored.exc = "" THEN 0 ELSE 1,
                                        IF keep_going THEN {"keep-going"} ELSE {},
                                        <<>>, <<>>)
                         /\ res' = <<Downloaded(pkg, requirements, done.invocations, TRUE)>>
                         /\ UNCHANGED <<mirror, root, arg>>

\* DownloadCmd.run: without packages and requirements files the packages of
\* the download directory are downloaded again
DownloadCmd(pkg, requirements, keep_going) ==
    IF pkg # <<>> \/ requirements # <<>>
    THEN DownloadPkgs(pkg, pkg, requirements, keep_going)
    ELSE \E listing \in Orderings(DOMAIN files) :
             \E listed \in {list_pkgs(files, records, listing, TRUE)} :
                 IF Raised(listed)
                 THEN /\ last' = Ran("download", 1,
                                     IF keep_going THEN {"keep-going"} ELSE {}, <<>>, <<>>)
                      /\ res' = <<Downloaded(pkg, requirements, <<>>, FALSE)>>
                      /\ UNCHANGED <<files, records, mirror, root, arg>>
                 ELSE DownloadPkgs(pkg, list_pkg_names(SortByName(listed.val)),
                                   requirements, keep_going)

DownloadNext ==
    \E pkg \in Lists(PkgNames, MaxPkgs), requirements \in Lists(ReqFiles, MaxReqs),
       keep_going \in BOOLEAN :
        DownloadCmd(pkg, requirements, keep_going)

DownloadSpec == Init /\ [][DownloadNext]_vars


\* The last command was a download that was given packages or requirements
\* files and every invocation of which started the external tool.
DownloadRan ==
    /\ last.cmd = "download"
    /\ res # <<>>
    /\ res[1].pkg # <<>> \/ res[1].requirements # <<>>
    /\ \A i \in 1..Len(res[1].invocations) : res[1].invocations[i].exc # "FileNotFoundError"

KeepGoingRan == DownloadRan /\ "keep-going" \in last.flags

SingleRan == DownloadRan /\ "keep-going" \notin last.flags

\* the tool was invoked once per requested package, in order, and then once
\* per requirements file, in order
InvokedEach ==
    /\ Len(res[1].invocations) = Len(res[1].pkg) + Len(res[1].requirements)
    /\ \A i \in 1..Len(res[1].pkg) :
           /\ res[1].invocations[i].pkgs = <<res[1].pkg[i]>>
           /\ res[1].invocations[i].requirements = <<>>
    /\ \A i \in 1..Len(res[1].requirements) :
           /\ res[1].invocations[Len(res[1].pkg) + i].pkgs = <<>>
           /\ res[1].invocations[Len(res[1].pkg) + i].requirements
                  = <<res[1].requirements[i]>>

\* one invocation covered all the packages and requirements files, and its
\* non-zero exit ended the command with exit code 1 before any cache record
\* was created
InvokedOnce ==
    /\ Len(res[1].invocations) = 1
    /\ res[1].invocations[1].pkgs = res[1].pkg
    /\ res[1].invocations[1].requirements = res[1].requirements
    /\ res[1].invocations[1].exc = "CalledProcessError" =>
           last.exit = 1 /\ ~res[1].recorded

\* the metadata of every artifact of the download directory can be read
AllProcessed == \A f \in DOMAIN files : ~Raised(get_pkg(files, records, f))

\* C11 as stated: with keep-going the external tool is invoked once per
\* requested package and then once per requirements file, whatever the exit
\* status of each invocation, cache-record creation follows and the command
\* succeeds; without keep-going one invocation covers everything and its
\* non-zero exit is fatal, with no cache-record creation.
C11_KeepGoingSucceeds ==
    /\ KeepGoingRan => InvokedEach /\ res[1].recorded /\ last.exit = 0
    /\ SingleRan => InvokedOnce

\* C11 as the code has it: with keep-going the external tool is invoked once
\* per requested package and then once per requirements file, whatever the
\* exit status of each invocation, and cache-record creation follows; the
\* command succeeds exactly when the metadata of every artifact then in the
\* download directory can be read. Without keep-going one invocation covers
\* everything and its non-zero exit is fatal, with no cache-record creation.
C11_KeepGoingDownload ==
    /\ KeepGoingRan => InvokedEach /\ res[1].recorded /\ (last.exit = 0 <=> AllProcessed)
    /\ SingleRan => InvokedOnce

\* a keep-going download went on after an invocation that exited with a
\* non-zero status, created the cache records and succeeded
C11_Witness ==
    /\ KeepGoingRan
    /\ Len(res[1].invocations) > 1
    /\ res[1].invocations[1].exc = "CalledProcessError"
    /\ res[1].invocations[Len(res[1].invocations)].exc = ""
    /\ res[1].recorded
    /\ last.exit = 0
    /\ DOMAIN records = DOMAIN files
    /\ files # EmptyFn


-----------------------------------------------------------------------------
(* The passes of the reconciler over one download directory *)

\* the largest download directory
MaxListing == 4

\* how many passes run one after the other
MaxPasses == 2

\* the spellings of one project, and another project
ListingNames == GroupNames \cup {<<"c">>}

\* the packages get_pkg returned, in the order of the directory listing
Listings ==
    UNION {{[i \in 1..n |-> GroupPkg(i, g[i][1], g[i][2])] : g \in [1..n -> ListingNames \X BOOLEAN]}
           : n \in 0..MaxListing}

\* One pass: the function that ran it, the packages it was given and the
\* packages as it left them.
Pass(kind, given, pkgs) == [kind |-> kind, given |-> given, pkgs |-> pkgs]

\* the packages as the last pass left them
Current == IF res = <<>> THEN arg ELSE res[Len(res)].pkgs

\* create_mirror without line 299: the names stay as they were given
GroupPassSkipped(pkgs) == pkgs

\* lines 292-299: the packages sorted by normalized name and every group
\* reconciled; the packages keep their places in pkgs, only their names change
GroupPass(pkgs) ==
    [i \in 1..Len(pkgs) |->
        fix_pkg_names(GroupOf(SortedByKey(pkgs, [k \in 1..Len(pkgs) |->
                                                    pkgs[k].metadata.norm_name]),
                              pkgs[i].metadata.norm_name))[
            Cardinality({j \in 1..i : pkgs[j].metadata.norm_name
                                          = pkgs[i].metadata.norm_name})]]

ReconcileInit ==
    /\ arg \in Listings
    /\ res = <<>>
    /\ files = EmptyFn /\ records = EmptyFn /\ mirror = EmptyFn /\ root = <<>>
    /\ last = Ran("none", 0, {}, <<>>, <<>>)

\* list_pkgs(download_dir): the global pass
ListPkgs ==
    /\ res = <<>>
    /\ res' = <<Pass("list_pkgs", arg, FixAllNames(arg))>>
    /\ last' = Ran("list_pkgs", 0, {}, <<>>, <<>>)
    /\ UNCHANGED <<files, records, mirror, root, arg>>

\* create_mirror over the packages in the order they are in
CreateMirror ==
    /\ Len(res) < MaxPasses
    /\ res' = Append(res, Pass("create_mirror", Current, GroupPass(Current)))
    /\ last' = Ran("create_mirror", 0, {}, <<>>, <<>>)
    /\ UNCHANGED <<files, records, mirror, root, arg>>

\* DeleteCmd.run after list_pkgs: create_mirror over remaining_pkgs, the
\* packages sorted by name without those named pkg_name
DeleteMirror(pkg_name) ==
    /\ Len(res) < MaxPasses
    /\ res # <<>>
    /\ res[Len(res)].kind = "list_pkgs"
    /\ Named(Current, pkg_name) # <<>>
    /\ \E remaining \in {SelectSeq(SortByName(Current),
                                   LAMBDA p : p.metadata.name # pkg_name)} :
           res' = Append(res, Pass("create_mirror", remaining, GroupPass(remaining)))
    /\ last' = Ran("delete", 0, {}, <<>>, <<>>)
    /\ UNCHANGED <<files, records, mirror, root, arg>>

ReconcileNext ==
    \/ ListPkgs
    \/ CreateMirror
    \/ \E pkg_name \in ListingNames : DeleteMirror(pkg_name)

ReconcileSpec == ReconcileInit /\ [][ReconcileNext]_vars

\* the normalized names of a list of packages
NormNames(pkgs) == {pkgs[i].metadata.norm_name : i \in 1..Len(pkgs)}

\* the files of one group, in the order of the list
GroupFiles(pkgs, norm_name) ==
    [i \in 1..Len(GroupOf(pkgs, norm_name)) |-> GroupOf(pkgs, norm_name)[i].file]

\* the name a list gives the artifact f
NameIn(pkgs, f) == pkgs[CHOOSE i \in 1..Len(pkgs) : pkgs[i].file = f].metadata.name

\* the packages of the directory listing in the order of another list
Unfixed(given) ==
    [i \in 1..Len(given) |-> arg[CHOOSE j \in 1..Len(arg) : arg[j].file = given[i].file]]

\* applying fix_pkg_names twice to a group gives what applying it once gives
FixTwiceIsOnce ==
    \A norm_name \in NormNames(arg) :
        fix_pkg_names(fix_pkg_names(GroupOf(arg, norm_name)))
            = fix_pkg_names(GroupOf(arg, norm_name))

\* the global pass followed by the per-group pass leaves the names the
\* per-group pass alone leaves
GlobalThenGroup ==
    (Len(res) = 2 /\ res[1].kind = "list_pkgs" /\ res[2].kind = "create_mirror") =>
        \A i \in 1..Len(res[2].pkgs) :
            res[2].pkgs[i].metadata.name = GroupPass(Unfixed(res[2].given))[i].metadata.name

\* pass k gave the i-th package it was given a name, and pass k + 1 ran over
\* the same artifacts of that package's group
Assigned(k, i) ==
    /\ ~res[k].given[i].metadata.trusted
    /\ \E j \in 1..Len(res[k].given) :
           /\ res[k].given[j].metadata.trusted
           /\ res[k].given[j].metadata.norm_name = res[k].given[i].metadata.norm_name
    /\ {res[k].given[j].file : j \in {j \in 1..Len(res[k].given) :
            res[k].given[j].metadata.norm_name = res[k].given[i].metadata.norm_name}}
         = {res[k + 1].given[j].file : j \in {j \in 1..Len(res[k + 1].given) :
            res[k + 1].given[j].metadata.norm_name = res[k].given[i].metadata.norm_name}}

\* pass k + 1 met the artifacts of the group of the i-th package of pass k
\* in the order pass k met them
SameOrder(k, i) ==
    GroupFiles(res[k].given, res[k].given[i].metadata.norm_name)
        = GroupFiles(res[k + 1].given, res[k].given[i].metadata.norm_name)

\* pass k + 1 left the i-th package of pass k the name pass k gave it
Kept(k, i) == NameIn(res[k + 1].pkgs, res[k].pkgs[i].file) = res[k].pkgs[i].metadata.name

\* C12 as stated: fix_pkg_names twice is fix_pkg_names once, the global pass
\* followed by the per-group pass leaves the names of the per-group pass
\* alone, and a name that a pass assigned is never changed by a later pass
\* over the same artifacts.
C12_AssignedNameNeverChanged ==
    /\ FixTwiceIsOnce
    /\ GlobalThenGroup
    /\ \A k \in 1..(Len(res) - 1) : \A i \in 1..Len(res[k].given) :
           Assigned(k, i) => Kept(k, i)

\* C12 as the code has it: fix_pkg_names twice is fix_pkg_names once, the
\* global pass followed by the per-group pass leaves the names of the
\* per-group pass alone, and a name that a pass assigned is not changed by a
\* later pass that meets the same artifacts of the group in the same order.
C12_ReconcileAgain ==
    /\ FixTwiceIsOnce
    /\ GlobalThenGroup
    /\ \A k \in 1..(Len(res) - 1) : \A i \in 1..Len(res[k].given) :
           (Assigned(k, i) /\ SameOrder(k, i)) => Kept(k, i)

\* the global pass gave an untrusted artifact the name of the first of two
\* trusted artifacts of different names, and the per-group pass that followed
\* in the same order left it that name
C12_Witness ==
    /\ Len(res) = 2
    /\ res[1].kind = "list_pkgs"
    /\ res[2].kind = "create_mirror"
    /\ \E i \in 1..Len(arg) :
           /\ Assigned(1, i)
           /\ SameOrder(1, i)
           /\ res[1].pkgs[i].metadata.name # arg[i].metadata.name
           /\ \E j \in 1..Len(arg) :
                  /\ arg[j].metadata.trusted
                  /\ arg[j].metadata.norm_name = arg[i].metadata.norm_name
                  /\ arg[j].metadata.name # res[1].pkgs[i].metadata.name
           /\ Kept(1, i)


-----------------------------------------------------------------------------
(* normalize on one string *)

\* the longest string normalized
MaxNormLen == 4

\* letters of both cases and the three separators
NormAlphabet == {"a", "A", "b", "-", "_", "."}

NormInputs == Strings(NormAlphabet, 0, MaxNormLen)

NormInit ==
    /\ arg \in NormInputs
    /\ res = <<>>
    /\ files = EmptyFn /\ records = EmptyFn /\ mirror = EmptyFn /\ root = <<>>
    /\ last = Ran("none", 0, {}, <<>>, <<>>)

Normalize ==
    /\ res = <<>>
    /\ res' = <<normalize(arg)>>
    /\ last' = Ran("normalize", 0, {}, <<>>, <<>>)
    /\ UNCHANGED <<files, records, mirror, root, arg>>

NormNext == Normalize

NormSpec == NormInit /\ [][NormNext]_vars

\* s and t differ only in the case of their letters and in which separators,
\* and how many, make up each run of separators
RECURSIVE SameButCaseAndSeps(_, _)
SameButCaseAndSeps(s, t) ==
    IF s = <<>> \/ t = <<>> THEN s = t
    ELSE IF IsSep(s[1]) \/ IsSep(t[1])
    THEN IsSep(s[1]) /\ IsSep(t[1]) /\ SameButCaseAndSeps(DropSeps(s), DropSeps(t))
    ELSE Lower(s[1]) = Lower(t[1]) /\ SameButCaseAndSeps(Tail(s), Tail(t))

\* C13: normalize(normalize(s)) = normalize(s); the result holds no
\* upper-case letter, no "_", no "." and no two adjacent "-"; and every
\* string that differs from s only in letter case and in the make-up of its
\* separator runs has the same result.
C13_NormalizeCanonical ==
    res # <<>> =>
        /\ normalize(res[1]) = res[1]
        /\ \A i \in 1..Len(res[1]) :
               /\ ~IsUpper(res[1][i])
               /\ res[1][i] \notin {"_", "."}
               /\ i > 1 => ~(res[1][i - 1] = "-" /\ res[1][i] = "-")
        /\ \A t \in NormInputs : SameButCaseAndSeps(arg, t) => normalize(t) = res[1]

\* a string with an upper-case letter and a run of two different separators
\* was normalized, and the result differs from it
C13_Witness ==
    /\ res # <<>>
    /\ \E i \in 1..Len(arg) : IsUpper(arg[i])
    /\ \E i \in 2..Len(arg) : IsSep(arg[i - 1]) /\ IsSep(arg[i]) /\ arg[i - 1] # arg[i]
    /\ \E i \in 1..Len(arg) : ~IsSep(arg[i]) /\ i < Len(arg) /\ IsSep(arg[i + 1])
    /\ res[1] # arg
    /\ \E t \in NormInputs : t # arg /\ SameButCaseAndSeps(arg, t)

====
